---- MODULE Spec2Model ----
(***************************************************************************)
(* Model of the detect-thermal edge function                               *)
(* (supabase/functions/detect-thermal/index.ts).                           *)
(*                                                                         *)
(* One invocation of the handler is a strictly sequential pipeline whose   *)
(* position is pc[i]; every await of an external collaborator is one step, *)
(* and the collaborator's answer is chosen nondeterministically.  The      *)
(* object store, the detections table and the millisecond clock are shared *)
(* by all invocations.                                                     *)
(*                                                                         *)
(* Text is modelled as a sequence of lexical chunks.  For the content of   *)
(* the AI message the chunks are                                           *)
(*    "["  "]"  ","   the JSON punctuation characters                      *)
(*    "d"             one JSON object literal that contains no bracket     *)
(*                    (a detection such as {"label":"Car",...})            *)
(*    "p"             a run of text that is not JSON (prose, a code fence) *)
(***************************************************************************)
EXTENDS Integers, Sequences, FiniteSets, TLC

\* ------------------------------------------------------------------ bounds
\* Longest AI message content, in chunks.
MaxLen == 5
\* Largest value of the millisecond clock.
MaxClock == 1
\* Number of invocations the platform runs concurrently.
NumInvocations == 2

Invocations == 1..NumInvocations

\* ------------------------------------------------------------- JSON values
\* Every JSON value has the same shape: kind "arr" carries items, kind "obj"
\* carries the detection's fields in det.
NoDet == [label |-> "", confidence |-> 0,
          bbox |-> [x |-> 0, y |-> 0, width |-> 0, height |-> 0],
          temperature |-> ""]

\* The object literal the chunk "d" stands for (confidence in hundredths).
CarDet == [label |-> "Car", confidence |-> 90,
           bbox |-> [x |-> 1, y |-> 2, width |-> 3, height |-> 4],
           temperature |-> "warm"]

JObj(d) == [kind |-> "obj", items |-> <<>>, det |-> d]
JArr(s) == [kind |-> "arr", items |-> s, det |-> NoDet]
JNone == [kind |-> "none", items |-> <<>>, det |-> NoDet]

\* The mock detection list of the catch block.
FallbackDetections ==
    JArr(<< JObj([label |-> "Thermal Object", confidence |-> 85,
                  bbox |-> [x |-> 25, y |-> 30, width |-> 40, height |-> 35],
                  temperature |-> "hot"]) >>)

\* --------------------------------------------------------------- JSON.parse
\* Recursive descent over the chunks of s from position i.  The result is
\* [ok, val, next]: whether a value starts at i, the value, and the position
\* after it.
ParseFail == [ok |-> FALSE, val |-> JNone, next |-> 0]

RECURSIVE ParseValue(_, _), ParseItems(_, _, _)
ParseValue(s, i) ==
    IF i > Len(s) THEN ParseFail
    ELSE IF s[i] = "d" THEN [ok |-> TRUE, val |-> JObj(CarDet), next |-> i + 1]
    ELSE IF s[i] = "[" THEN
        IF i + 1 <= Len(s) /\ s[i + 1] = "]"
        THEN [ok |-> TRUE, val |-> JArr(<<>>), next |-> i + 2]
        ELSE ParseItems(s, i + 1, <<>>)
    ELSE ParseFail

\* The elements of an array after its "[" (or after a ","), acc being the
\* elements read so far.
ParseItems(s, i, acc) ==
    LET v == ParseValue(s, i) IN
    IF ~v.ok \/ v.next > Len(s) THEN ParseFail
    ELSE IF s[v.next] = "]"
         THEN [ok |-> TRUE, val |-> JArr(Append(acc, v.val)), next |-> v.next + 1]
    ELSE IF s[v.next] = ","
         THEN ParseItems(s, v.next + 1, Append(acc, v.val))
    ELSE ParseFail

\* JSON.parse(text): [ok, val]; ok is FALSE where JSON.parse throws, which is
\* whenever the whole text is not exactly one JSON value.
JSONParse(s) ==
    LET v == ParseValue(s, 1) IN
    IF v.ok /\ v.next = Len(s) + 1
    THEN [ok |-> TRUE, val |-> v.val]
    ELSE [ok |-> FALSE, val |-> JNone]

\* ------------------------------------------------- content.match(/\[[\s\S]*\]/)
\* The leftmost "[" that has a "]" after it, then greedily up to the last "]".
\* [found, text].
RegexMatch(s) ==
    LET opens == {i \in 1..Len(s) : s[i] = "[" /\ \E j \in (i + 1)..Len(s) : s[j] = "]"}
    IN  IF opens = {} THEN [found |-> FALSE, text |-> <<>>]
        ELSE LET first == CHOOSE i \in opens : \A k \in opens : i <= k
                 last == CHOOSE j \in 1..Len(s) :
                             /\ s[j] = "]"
                             /\ \A k \in 1..Len(s) : s[k] = "]" => k <= j
             IN [found |-> TRUE, text |-> SubSeq(s, first, last)]

\* aiData.choices?.[0]?.message?.content || '[]'
\* c is [present, text]; a missing or an empty content is falsy.
ContentOrDefault(c) ==
    IF c.present /\ c.text # <<>> THEN c.text ELSE <<"[", "]">>

\* Faulty variant: the catch block leaves detections at its initial [].
ParseDetectionsEmptyOnThrow(c) ==
    LET content == ContentOrDefault(c)
        jsonMatch == RegexMatch(content)
        parsed == IF jsonMatch.found THEN JSONParse(jsonMatch.text)
                  ELSE JSONParse(content)
    IN  IF parsed.ok THEN parsed.val ELSE JArr(<<>>)

\* The try/catch that computes detections from the AI message.
ParseDetections(c) ==
    LET content == ContentOrDefault(c)
        jsonMatch == RegexMatch(content)
        parsed == IF jsonMatch.found THEN JSONParse(jsonMatch.text)
                  ELSE JSONParse(content)
    IN  IF parsed.ok THEN parsed.val ELSE FallbackDetections

\* ---------------------------------------------------------------- inputs
NoUser == ""
Users == {"u1", "u2"}

\* The auth collaborator's token table: the user a bearer token belongs to.
TokenUser(token) ==
    IF token = <<"tok1">> THEN "u1"
    ELSE IF token = <<"tok2">> THEN "u2"
    ELSE NoUser

\* Authorization header values, as the words of the header (<<>> is the
\* empty string); present = FALSE is headers.get(...) returning null.
AuthHeaders ==
    {[present |-> FALSE, value |-> <<>>]} \cup
    {[present |-> TRUE, value |-> v] :
        v \in {<<>>, <<"Bearer ", "tok1">>, <<"Bearer ", "tok2">>,
               <<"tok1">>, <<"Bearer ", "stale">>}}

\* What formData.get('image') can return: null, a string (a text field) or
\* a File.  name and type are what the template literal and the upload read:
\* a string has neither property, which prints as "undefined".
NoImage == [kind |-> "null", text |-> <<>>, name |-> "", type |-> ""]
TextImage(t) == [kind |-> "string", text |-> t, name |-> "undefined", type |-> "undefined"]
FileImage(n, t) == [kind |-> "file", text |-> <<>>, name |-> n, type |-> t]

\* Request bodies: not decodable as form data, or a form whose image entry
\* is absent, a text value (empty or not) or a file.
Bodies ==
    {[multipart |-> FALSE, image |-> NoImage]} \cup
    {[multipart |-> TRUE, image |-> im] :
        im \in {NoImage, TextImage(<<>>), TextImage(<<"hello">>),
                FileImage("scan.png", "image/png")}}

\* All chunk sequences of length at most n.
RECURSIVE SeqsUpTo(_, _)
SeqsUpTo(A, n) ==
    IF n = 0 THEN {<<>>}
    ELSE LET shorter == SeqsUpTo(A, n - 1)
         IN shorter \cup {Append(s, a) : s \in {t \in shorter : Len(t) = n - 1}, a \in A}

Chunks == {"[", "]", ",", "d", "p"}

MissingContent == [present |-> FALSE, text |-> <<>>]
\* Every message content of at most MaxLen chunks, and a missing content.
AllContents ==
    {MissingContent} \cup {[present |-> TRUE, text |-> s] : s \in SeqsUpTo(Chunks, MaxLen)}
\* A few contents: missing, one array, prose.
SampleContents ==
    {MissingContent,
     [present |-> TRUE, text |-> <<"[", "d", "]">>],
     [present |-> TRUE, text |-> <<"p">>]}

\* Status codes the AI gateway answers with.
AIStatuses == {200, 201, 402, 429, 500, 503}

\* The inputs a specification draws requests and AI answers from.
\* Every request, a few AI contents.
AllRequests ==
    [methods |-> {"OPTIONS", "POST"}, headers |-> AuthHeaders, bodies |-> Bodies,
     statuses |-> AIStatuses, jsons |-> BOOLEAN, contents |-> SampleContents]
\* One well-formed request, every AI content.
AllAnswers ==
    [methods |-> {"POST"}, headers |-> {[present |-> TRUE, value |-> <<"Bearer ", "tok1">>]},
     bodies |-> {[multipart |-> TRUE, image |-> FileImage("scan.png", "image/png")]},
     statuses |-> {200}, jsons |-> {TRUE}, contents |-> AllContents]
\* Authenticated requests of two users, each uploading a file of the same
\* name or sending a text value as the image.
SameUploads ==
    [methods |-> {"POST"},
     headers |-> {[present |-> TRUE, value |-> v] :
                     v \in {<<"Bearer ", "tok1">>, <<"Bearer ", "tok2">>}},
     bodies |-> {[multipart |-> TRUE, image |-> im] :
                    im \in {FileImage("scan.png", "image/png"), TextImage(<<"hello">>)}},
     statuses |-> {200, 429}, jsons |-> {TRUE},
     contents |-> {[present |-> TRUE, text |-> <<"[", "d", "]">>]}]

\* ----------------------------------------------------------------- state
VARIABLES
    pc,              \* position of each invocation in the handler
    method,          \* req.method
    authHeader,      \* req.headers.get('authorization')
    user,            \* user.id, NoUser while unresolved
    form,            \* the request body as read by req.formData()
    fileName,        \* the storage key built from user, clock and file name
    uploadData,      \* [ok, path] answered by the upload
    aiBody,          \* [json, content] body of a 2xx AI answer
    detections,      \* the detections variable of the handler
    detectionRecord, \* the row read back from the insert
    response,        \* the Response the invocation returned
    calls,           \* the external calls the invocation made, in order
    objects,         \* object store, bucket thermal-images: set of [key, by]
    table,           \* the detections table: sequence of rows
    now              \* Date.now()

vars == <<pc, method, authHeader, user, form, fileName, uploadData, aiBody,
          detections, detectionRecord, response, calls, objects, table, now>>

NoKey == <<>>
NoRow == [id |-> 0, user_id |-> NoUser, image_path |-> NoKey,
          detections |-> JNone, created_at |-> 0]
NoUrl == [present |-> FALSE, path |-> NoKey]
NoResponse == [status |-> 0, kind |-> "none", error |-> "", id |-> 0,
               image_url |-> NoUrl, detections |-> JNone, created_at |-> 0]

\* new Response(null, { headers: corsHeaders })
EmptyResponse == [NoResponse EXCEPT !.status = 200, !.kind = "empty"]
\* new Response(JSON.stringify({ error: msg }), { status: st, ... })
ErrorResponse(st, msg) == [NoResponse EXCEPT !.status = st, !.kind = "error", !.error = msg]
\* The success Response: image_url is dropped by JSON.stringify when undefined.
ResultResponse(row, url, dets) ==
    [status |-> 200, kind |-> "result", error |-> "", id |-> row.id,
     image_url |-> url, detections |-> dets, created_at |-> row.created_at]

Call(name, ok, status) == [call |-> name, ok |-> ok, status |-> status]

\* authHeader.replace('Bearer ', ''): the first occurrence is removed.
StripBearer(v) ==
    LET at == {k \in 1..Len(v) : v[k] = "Bearer "}
    IN  IF at = {} THEN v
        ELSE LET f == CHOOSE k \in at : \A m \in at : k <= m
             IN SubSeq(v, 1, f - 1) \o SubSeq(v, f + 1, Len(v))

\* Faulty variant: the key lacks the owner's folder.
StorageKeyNoOwner(uid, millis, name) == << <<ToString(millis), "_", name>> >>

\* `${user.id}/${Date.now()}_${file.name}` as its path segments, each the
\* sequence of its parts.
StorageKey(uid, millis, name) == << <<uid>>, <<ToString(millis), "_", name>> >>

\* (storage.foldername(name))[1]: the first path segment of a key.
FirstSegment(key) == key[1]

\* Faulty variant: authHeader === null, which lets the empty header through.
MissingAuthNullOnly(h) == ~h.present

\* !authHeader
MissingAuth(h) == ~h.present \/ h.value = <<>>

\* Faulty variant: the !user test is dropped.
RejectedOnErrorOnly(authError, u) == authError

\* authError || !user
Rejected(authError, u) == authError \/ u = NoUser

\* !file
Falsy(im) == im.kind = "null" \/ (im.kind = "string" /\ im.text = <<>>)

\* Faulty variant: only 5xx answers count as failures.
StatusOkBelow500(st) == st >= 200 /\ st <= 499

\* aiResponse.ok
StatusOk(st) == st >= 200 /\ st <= 299

Init ==
    /\ pc = [i \in Invocations |-> "idle"]
    /\ method = [i \in Invocations |-> ""]
    /\ authHeader = [i \in Invocations |-> [present |-> FALSE, value |-> <<>>]]
    /\ user = [i \in Invocations |-> NoUser]
    /\ form = [i \in Invocations |-> [multipart |-> FALSE, image |-> NoImage]]
    /\ fileName = [i \in Invocations |-> NoKey]
    /\ uploadData = [i \in Invocations |-> [ok |-> FALSE, path |-> NoKey]]
    /\ aiBody = [i \in Invocations |-> [json |-> FALSE, content |-> MissingContent]]
    /\ detections = [i \in Invocations |-> JNone]
    /\ detectionRecord = [i \in Invocations |-> NoRow]
    /\ response = [i \in Invocations |-> NoResponse]
    /\ calls = [i \in Invocations |-> <<>>]
    /\ objects = {}
    /\ table = <<>>
    /\ now = 0

\* The invocation returns r.
Return(i, r) ==
    /\ pc' = [pc EXCEPT ![i] = "done"]
    /\ response' = [response EXCEPT ![i] = r]

\* The millisecond clock advances.
Tick ==
    /\ now < MaxClock
    /\ now' = now + 1
    /\ UNCHANGED <<pc, method, authHeader, user, form, fileName, uploadData, aiBody,
                   detections, detectionRecord, response, calls, objects, table>>

\* Lines 10-33: the request arrives; preflight, the authorization header
\* check, and the getUser call is issued.
Receive(i, inp) ==
    /\ pc[i] = "idle"
    /\ \E m \in inp.methods, h \in inp.headers :
        /\ method' = [method EXCEPT ![i] = m]
        /\ IF m = "OPTIONS"
           THEN /\ Return(i, EmptyResponse)
                /\ UNCHANGED authHeader
           ELSE /\ authHeader' = [authHeader EXCEPT ![i] = h]
                /\ IF MissingAuth(h)
                   THEN Return(i, ErrorResponse(401, "Missing authorization header"))
                   ELSE /\ pc' = [pc EXCEPT ![i] = "getUser"]
                        /\ UNCHANGED response
    /\ UNCHANGED <<user, form, fileName, uploadData, aiBody, detections,
                   detectionRecord, calls, objects, table, now>>

\* Lines 31-43: supabase.auth.getUser answers; the handler then awaits the
\* form data.  The verifier answers with an error, with no user, or with the
\* user the token belongs to.
GetUser(i) ==
    /\ pc[i] = "getUser"
    /\ LET token == StripBearer(authHeader[i].value) IN
       \E authError \in BOOLEAN, u \in {NoUser, TokenUser(token)} :
        /\ calls' = [calls EXCEPT ![i] = Append(@, Call("getUser", ~authError /\ u # NoUser, 0))]
        /\ IF Rejected(authError, u)
           THEN /\ Return(i, ErrorResponse(401, "Unauthorized"))
                /\ UNCHANGED user
           ELSE /\ user' = [user EXCEPT ![i] = u]
                /\ pc' = [pc EXCEPT ![i] = "formData"]
                /\ UNCHANGED response
    /\ UNCHANGED <<method, authHeader, form, fileName, uploadData, aiBody, detections,
                   detectionRecord, objects, table, now>>

\* Lines 43-62: req.formData() settles; the image entry is checked, the
\* storage key is built from the clock and the upload is issued.  A body that
\* is not form data makes formData() reject, which the outer catch reports.
ReadForm(i, inp) ==
    /\ pc[i] = "formData"
    /\ \E b \in inp.bodies :
        /\ form' = [form EXCEPT ![i] = b]
        /\ IF ~b.multipart
           THEN /\ Return(i, ErrorResponse(500, "Body can not be decoded as form data"))
                /\ UNCHANGED fileName
           ELSE IF Falsy(b.image)
           THEN /\ Return(i, ErrorResponse(400, "No image file provided"))
                /\ UNCHANGED fileName
           ELSE /\ fileName' = [fileName EXCEPT ![i] = StorageKey(user[i], now, b.image.name)]
                /\ pc' = [pc EXCEPT ![i] = "upload"]
                /\ UNCHANGED response
    /\ UNCHANGED <<method, authHeader, user, uploadData, aiBody, detections,
                   detectionRecord, calls, objects, table, now>>

\* The object store's answer to upload(key, ..., {upsert: false}): an
\* existing key is never overwritten, and any upload may fail.
UploadOutcomes(key) == IF \E o \in objects : o.key = key THEN {FALSE} ELSE {TRUE, FALSE}

\* Lines 57-112: the upload settles; on success the file is read and encoded
\* and the AI request is issued.  A text value has no arrayBuffer method, so
\* line 75 throws into the outer catch.
Upload(i) ==
    /\ pc[i] = "upload"
    /\ \E ok \in UploadOutcomes(fileName[i]) :
        /\ calls' = [calls EXCEPT ![i] = Append(@, Call("upload", ok, 0))]
        /\ IF ~ok
           THEN /\ Return(i, ErrorResponse(500, "Failed to upload image"))
                /\ UNCHANGED <<objects, uploadData>>
           ELSE /\ objects' = objects \cup {[key |-> fileName[i], by |-> i]}
                /\ uploadData' = [uploadData EXCEPT ![i] = [ok |-> TRUE, path |-> fileName[i]]]
                /\ IF form[i].image.kind # "file"
                   THEN Return(i, ErrorResponse(500, "file.arrayBuffer is not a function"))
                   ELSE /\ pc' = [pc EXCEPT ![i] = "ai"]
                        /\ UNCHANGED response
    /\ UNCHANGED <<method, authHeader, user, form, fileName, aiBody, detections,
                   detectionRecord, table, now>>

\* Faulty variant: the 402 branch is missing.
AIErrorResponseNo402(st) ==
    IF st = 429 THEN ErrorResponse(429, "Rate limit exceeded. Please try again later.")
    ELSE ErrorResponse(500, "Failed to analyze image")

\* The Response for a non-success AI status (lines 114-136).
AIErrorResponse(st) ==
    IF st = 429 THEN ErrorResponse(429, "Rate limit exceeded. Please try again later.")
    ELSE IF st = 402
    THEN ErrorResponse(402, "AI credits exhausted. Please add credits to continue.")
    ELSE ErrorResponse(500, "Failed to analyze image")

\* Lines 81-175: the AI gateway answers; a non-success status is mapped to
\* an error Response, a 2xx body is read as JSON (a body that is not JSON
\* throws into the outer catch), the detections are parsed from the message
\* content and the insert is issued.
AICall(i, inp) ==
    /\ pc[i] = "ai"
    /\ \E st \in inp.statuses, json \in inp.jsons, c \in inp.contents :
        /\ calls' = [calls EXCEPT ![i] = Append(@, Call("ai", st \in 200..299, st))]
        /\ IF ~StatusOk(st)
           THEN /\ Return(i, AIErrorResponse(st))
                /\ UNCHANGED <<aiBody, detections>>
           ELSE IF ~json
           THEN /\ Return(i, ErrorResponse(500, "Unexpected token in JSON"))
                /\ UNCHANGED <<aiBody, detections>>
           ELSE /\ aiBody' = [aiBody EXCEPT ![i] = [json |-> TRUE, content |-> c]]
                /\ detections' = [detections EXCEPT ![i] = ParseDetections(c)]
                /\ pc' = [pc EXCEPT ![i] = "insert"]
                /\ UNCHANGED response
    /\ UNCHANGED <<method, authHeader, user, form, fileName, uploadData,
                   detectionRecord, objects, table, now>>

\* The row the insert stores: id and created_at are defaulted by the table.
NewRow(i) ==
    [id |-> Len(table) + 1, user_id |-> user[i], image_path |-> uploadData[i].path,
     detections |-> detections[i], created_at |-> now]

\* Lines 167-190: the insert settles; on success the signed URL is requested.
Insert(i) ==
    /\ pc[i] = "insert"
    /\ \E ok \in BOOLEAN :
        /\ calls' = [calls EXCEPT ![i] = Append(@, Call("insert", ok, 0))]
        /\ IF ~ok
           THEN /\ Return(i, ErrorResponse(500, "Failed to save detection results"))
                /\ UNCHANGED <<table, detectionRecord>>
           ELSE /\ table' = Append(table, NewRow(i))
                /\ detectionRecord' = [detectionRecord EXCEPT ![i] = NewRow(i)]
                /\ pc' = [pc EXCEPT ![i] = "sign"]
                /\ UNCHANGED response
    /\ UNCHANGED <<method, authHeader, user, form, fileName, uploadData, aiBody,
                   detections, objects, now>>

\* Faulty variant: a signing failure is answered with an error.
SignedResponseFatal(i, ok) ==
    IF ok
    THEN ResultResponse(detectionRecord[i], [present |-> TRUE, path |-> uploadData[i].path],
                        detections[i])
    ELSE ErrorResponse(500, "Failed to sign image URL")

\* The Response after createSignedUrl: urlData?.signedUrl is undefined when
\* signing failed.
SignedResponse(i, ok) ==
    ResultResponse(detectionRecord[i],
                   IF ok THEN [present |-> TRUE, path |-> uploadData[i].path] ELSE NoUrl,
                   detections[i])

\* Lines 188-203: createSignedUrl settles, with or without a URL, and the
\* success Response is returned either way.
Sign(i) ==
    /\ pc[i] = "sign"
    /\ \E ok \in BOOLEAN :
        /\ calls' = [calls EXCEPT ![i] = Append(@, Call("sign", ok, 0))]
        /\ Return(i, SignedResponse(i, ok))
    /\ UNCHANGED <<method, authHeader, user, form, fileName, uploadData, aiBody,
                   detections, detectionRecord, objects, table, now>>

\* One step of invocation i, its request and AI answer drawn from inp.
Handle(i, inp) ==
    \/ Receive(i, inp)
    \/ GetUser(i)
    \/ ReadForm(i, inp)
    \/ Upload(i)
    \/ AICall(i, inp)
    \/ Insert(i)
    \/ Sign(i)

\* Concurrent invocations of authenticated users.
Next == Tick \/ \E i \in Invocations : Handle(i, SameUploads)

Spec == Init /\ [][Next]_vars

\* A single invocation, over every request.
NextOne == Tick \/ Handle(1, AllRequests)

SpecOne == Init /\ [][NextOne]_vars

\* A single well-formed request, over every AI message content.
NextParse == Tick \/ Handle(1, AllAnswers)

SpecParse == Init /\ [][NextParse]_vars

\* ================================================================ properties
\* Helpers over the call log of an invocation.
Made(i, name) == \E k \in DOMAIN calls[i] : calls[i][k].call = name
Accepted(i) == calls[i] # <<>> /\ calls[i][1] = Call("getUser", TRUE, 0)
LastCall(i, c) == calls[i] # <<>> /\ calls[i][Len(calls[i])] = c
NoStoreOrAICalls(i) == ~Made(i, "upload") /\ ~Made(i, "ai") /\ ~Made(i, "insert")

\* The request carries no image field that decodes as a file.
NoImageFile(b) == ~b.multipart \/ b.image.kind # "file"
FormRead(i) == pc[i] \in {"upload", "ai", "insert", "sign", "done"} /\ Accepted(i)

\* C1 (as claimed): every request with an accepted token and no image field
\* that decodes as a file (absent, a text value, or a body that is not form
\* data) is answered 400 "No image file provided" with no upload, AI call or
\* insert.
C1_NoImageIs400 ==
    \A i \in Invocations :
        (FormRead(i) /\ NoImageFile(form[i])) =>
            /\ pc[i] = "done"
            /\ response[i] = ErrorResponse(400, "No image file provided")
            /\ NoStoreOrAICalls(i)

\* C4: a non-OPTIONS request whose Authorization header is absent or empty
\* is answered exactly 401 "Missing authorization header", and no
\* collaborator is called.
C4_MissingHeader ==
    \A i \in Invocations :
        (method[i] = "POST" /\ (~authHeader[i].present \/ authHeader[i].value = <<>>)) =>
            /\ pc[i] = "done"
            /\ response[i] = ErrorResponse(401, "Missing authorization header")
            /\ calls[i] = <<>>

\* A POST whose Authorization header is present but empty has been answered.
C4_Witness ==
    \E i \in Invocations :
        /\ method[i] = "POST" /\ authHeader[i].present /\ authHeader[i].value = <<>>
        /\ pc[i] = "done" /\ response[i].status = 401

\* C5: a non-OPTIONS request with a non-empty Authorization header whose
\* token the verifier rejects (an error, or no user) is answered 401
\* "Unauthorized", and no upload, AI call or insert happens.
C5_Rejected ==
    \A i \in Invocations :
        (calls[i] # <<>> /\ calls[i][1] = Call("getUser", FALSE, 0)) =>
            /\ pc[i] = "done"
            /\ response[i] = ErrorResponse(401, "Unauthorized")
            /\ calls[i] = << Call("getUser", FALSE, 0) >>
            /\ user[i] = NoUser

\* A token unknown to the verifier has been answered 401.
C5_Witness ==
    \E i \in Invocations :
        /\ authHeader[i].value = <<"Bearer ", "stale">>
        /\ calls[i] = << Call("getUser", FALSE, 0) >>
        /\ pc[i] = "done" /\ response[i].status = 401

\* The Response the claim names for a non-success AI status.
C3_Expected(st) ==
    CASE st = 429 -> [status |-> 429, msg |-> "Rate limit exceeded. Please try again later."]
      [] st = 402 -> [status |-> 402, msg |-> "AI credits exhausted. Please add credits to continue."]
      [] OTHER -> [status |-> 500, msg |-> "Failed to analyze image"]

C6_KeysNeverCollide ==
    \A i, j \in Invocations :
        (/\ i # j
         /\ fileName[i] # NoKey /\ fileName[j] # NoKey
         /\ user[i] = user[j]
         /\ form[i].image.kind = "file" /\ form[i] = form[j]) =>
            fileName[i] # fileName[j]

\* The invocation a row was inserted by: the one that read the row back.
InsertedBy(row) == {i \in Invocations : detectionRecord[i] = row}

\* The user the request's token belongs to.
AuthenticatedUser(i) == TokenUser(StripBearer(authHeader[i].value))

\* C7: every inserted DetectionRecord has the user_id of the authenticated
\* user of the inserting invocation, and its image_path is the key of an
\* object stored by that invocation whose first path segment is that
\* user_id.
C7_RecordOwnsImage ==
    \A r \in DOMAIN table :
        /\ Cardinality(InsertedBy(table[r])) = 1
        /\ \A i \in InsertedBy(table[r]) :
            /\ table[r].user_id = AuthenticatedUser(i)
            /\ table[r].user_id \in Users
            /\ [key |-> table[r].image_path, by |-> i] \in objects
            /\ FirstSegment(table[r].image_path) = <<table[r].user_id>>

\* Two invocations of different users have each inserted a record.
C7_Witness ==
    /\ Len(table) = 2
    /\ table[1].user_id # table[2].user_id

\* The upload, AI and insert calls of an invocation, in order.
CoreCalls(i) == SelectSeq(calls[i], LAMBDA c : c.call \in {"upload", "ai", "insert"})
OkInserts(i) == {k \in DOMAIN calls[i] : calls[i][k] = Call("insert", TRUE, 0)}

\* C8: an invocation inserts at most one record; a 200 answer to a POST is
\* preceded, in this order, by a successful upload, a 2xx AI call and
\* exactly one successful insert; the insert is never attempted after a
\* failed upload or AI call.
C8_LinearPipeline ==
    /\ \A i \in Invocations :
        /\ Cardinality(OkInserts(i)) <= 1
        /\ (method[i] = "POST" /\ response[i].status = 200) =>
              /\ Len(CoreCalls(i)) = 3
              /\ CoreCalls(i)[1] = Call("upload", TRUE, 0)
              /\ CoreCalls(i)[2].call = "ai" /\ CoreCalls(i)[2].status \in 200..299
              /\ CoreCalls(i)[3] = Call("insert", TRUE, 0)
        /\ \A k \in DOMAIN calls[i] :
              calls[i][k].call = "insert" =>
                  \E a, b \in 1..(k - 1) :
                      /\ a < b
                      /\ calls[i][a] = Call("upload", TRUE, 0)
                      /\ calls[i][b].call = "ai" /\ calls[i][b].status \in 200..299
                      /\ \A m \in 1..(k - 1) :
                            calls[i][m].call \in {"upload", "ai"} => m \in {a, b}
    /\ Len(table) = Cardinality(UNION {{<<i, k>> : k \in OkInserts(i)} : i \in Invocations})

\* One invocation was answered 200 and another attempted the insert and
\* failed.
C8_Witness ==
    \E i, j \in Invocations :
        /\ method[i] = "POST" /\ response[i].status = 200
        /\ pc[j] = "done" /\ LastCall(j, Call("insert", FALSE, 0))

\* C9: after a successful insert a failure of the signed-URL step is not
\* fatal: the answer is 200 with id and created_at of the inserted row,
\* without image_url, and its detections are the ones persisted.
C9_SignFailureNotFatal ==
    \A i \in Invocations :
        (LastCall(i, Call("sign", FALSE, 0))) =>
            /\ pc[i] = "done"
            /\ response[i].status = 200
            /\ response[i].kind = "result"
            /\ ~response[i].image_url.present
            /\ \E r \in DOMAIN table :
                /\ i \in InsertedBy(table[r])
                /\ response[i].id = table[r].id
                /\ response[i].created_at = table[r].created_at
                /\ response[i].detections = table[r].detections

\* Signing failed for one invocation and succeeded for another.
C9_Witness ==
    \E i, j \in Invocations :
        /\ LastCall(i, Call("sign", FALSE, 0))
        /\ LastCall(j, Call("sign", TRUE, 0))
        /\ response[j].image_url.present

\* --------------------------------------------------- the parse step (SpecOne)
\* The invocation received a 2xx AI answer with a JSON body and parsed it.
Parsed(i) == pc[i] \in {"insert", "sign", "done"} /\ aiBody[i].json

\* The rows invocation i inserted.
RowsOf(i) == {r \in DOMAIN table : i \in InsertedBy(table[r])}

\* The detections invocation i persisted and returned are exactly v.
Persists(i, v) ==
    /\ detections[i] = v
    /\ \A r \in RowsOf(i) : table[r].detections = v
    /\ (pc[i] = "done" /\ RowsOf(i) # {}) =>
          (response[i].status = 200 /\ response[i].detections = v)

\* The JSON array literals inside the text s: the positions a where an array
\* literal starts.
ArrayStarts(s) == {a \in 1..Len(s) : s[a] = "[" /\ ParseValue(s, a).ok}
FirstArray(s) ==
    LET a == CHOOSE x \in ArrayStarts(s) : \A y \in ArrayStarts(s) : x <= y
    IN ParseValue(s, a).val

\* The content contains no parseable JSON array; a missing or an empty
\* content contains none.
NoParseableArray(c) == ~c.present \/ ArrayStarts(c.text) = {}

\* C2 (as claimed): whenever the content of a successful AI answer contains
\* no parseable JSON array (missing or empty content, prose, valid JSON that
\* is not an array), the persisted detections are the fixed fallback list
\* and the request returns 200 once the insert succeeded.
C2_NoArrayGivesFallback ==
    \A i \in Invocations :
        (Parsed(i) /\ NoParseableArray(aiBody[i].content)) =>
            Persists(i, FallbackDetections)

\* C2 (amended): the fallback list is persisted exactly when the content is
\* non-empty, contains no parseable JSON array and is not itself valid
\* JSON; a missing or empty content persists the empty list, and content
\* that is valid JSON but not an array is persisted as parsed.  In each
\* case the request returns 200 once the insert succeeded.
C2_FallbackWhenParseThrows ==
    \A i \in Invocations :
        (Parsed(i) /\ NoParseableArray(aiBody[i].content)) =>
            LET c == aiBody[i].content IN
            IF ~c.present \/ c.text = <<>> THEN Persists(i, JArr(<<>>))
            ELSE IF JSONParse(c.text).ok THEN Persists(i, JSONParse(c.text).val)
            ELSE Persists(i, FallbackDetections)

\* Prose with an unmatched bracket was answered 200 with the fallback list.
C2_Witness ==
    /\ aiBody[1].json /\ aiBody[1].content = [present |-> TRUE, text |-> <<"p", "]", "p">>]
    /\ pc[1] = "done" /\ response[1].status = 200
    /\ response[1].detections = FallbackDetections
    /\ table # <<>> /\ table[1].detections = FallbackDetections

\* C10 (as claimed): whenever the content contains at least one JSON array
\* literal, whatever surrounds or follows it, the persisted and returned
\* detections are the first array literal of the content, parsed.
C10_FirstArrayExtracted ==
    \A i \in Invocations :
        (Parsed(i) /\ ~NoParseableArray(aiBody[i].content)) =>
            Persists(i, FirstArray(aiBody[i].content.text))
====
